---- MODULE Spec2Model ----
(***************************************************************************)
(* Model of the document-processing notebook                               *)
(* "Lab1-boto3 API/Document processing.ipynb": the cells that start an     *)
(* asynchronous Textract job, poll its status, collect the paginated       *)
(* result and build the document from the collected responses.             *)
(*                                                                         *)
(* The notebook is run top to bottom; an exception raised in a cell stops  *)
(* the run and leaves the kernel's global variables as they are.           *)
(*                                                                         *)
(* Further sections model the comprehend cell of the same notebook, the    *)
(* endpoint cells of "Lab7 - BertModel/bert-sm-python-SDK.ipynb" and of    *)
(* "unnamed/part_000", the split cell of "unnamed/part_000" and the       *)
(* sampling and frog cells of the dataset notebook; each has a             *)
(* specification of its own.                                               *)
(***************************************************************************)
EXTENDS Integers, Sequences, FiniteSets, TLC

VARIABLES
    pc,             \* the cell / loop position the run is at
    chain,          \* the service's result pages of the job, in token order
    jobStatus,      \* status the service holds for the job
    textractJobId,  \* notebook global: textractJobId
    status,         \* notebook global: status
    observed,       \* statuses returned to the status-poll cell, in order
    pages,          \* notebook global: pages
    nextToken,      \* notebook global: nextToken
    doc,            \* notebook global: doc (the texts of doc.pages)
    raised,         \* the call whose exception stopped the run
    log,            \* every sleep and service request made, in order
    job,            \* how many times the Textract cells have been started
    maxLength,      \* notebook global: maxLength
    pageNo,         \* position of the loop variable page in doc.pages
    pageText,       \* notebook global: pageText
    range_i,        \* loop variable i: next value of range(0, len(pageText), maxLength)
    comprehendResponse, \* notebook global: comprehendResponse
    notebook,       \* the notebook whose endpoint cells are run
    cellNo,         \* position of the run in that notebook's endpoint cells
    predictor,      \* notebook global: predictor (the endpoint it is bound to)
    endpoints,      \* status of every endpoint the service has created
    calls,          \* every endpoint call made, in order
    endpoint_status,    \* notebook global: endpoint_status
    sample_annos,   \* notebook global: sample_annos (image id -> annotation)
    image_ids,      \* notebook global: image_ids
    first_80,       \* notebook global: first_80
    next_10,        \* notebook global: next_10
    train_ids,      \* notebook global: train_ids
    val_ids,        \* notebook global: val_ids
    test_ids,       \* notebook global: test_ids
    train_metadata, \* notebook global: train_metadata (categories, annotations)
    val_metadata,   \* notebook global: val_metadata (annotations)
    category_labels,    \* notebook global: category_labels, in dict order
    train_annos,    \* notebook global: train_annos
    val_annos,      \* notebook global: val_annos
    all_annos,      \* notebook global: all_annos
    categoryNo,     \* position of the loop variable category_id in category_labels
    frog_images,    \* notebook global: frog_images (how many there are)
    next_anno_idx,  \* notebook global: next_anno_idx
    frog_anno_ids   \* notebook global: frog_anno_ids

chunkVars == <<maxLength, pageNo, pageText, range_i, comprehendResponse>>

endpointVars == <<notebook, cellNo, predictor, endpoints, calls,
                  endpoint_status>>

splitVars == <<sample_annos, image_ids, first_80, next_10, train_ids,
               val_ids, test_ids>>

datasetVars == <<train_metadata, val_metadata, category_labels, train_annos,
                 val_annos, all_annos, categoryNo, frog_images,
                 next_anno_idx, frog_anno_ids>>

(* the variables of the cells outside the Textract cells *)
otherCells == <<chunkVars, endpointVars, splitVars, datasetVars>>

vars == <<pc, chain, jobStatus, textractJobId, status, observed, pages,
          nextToken, doc, raised, log, job, otherCells>>

----------------------------------------------------------------------------
(* Bounds of the model *)

MaxPages == 3        \* longest continuation-token chain the service holds
MaxBlocks == 3       \* most blocks in the result of one job
MaxWaitPolls == 2    \* the wait bound k of the timeout scenario, in polls
MaxPolls == MaxWaitPolls + 2   \* status polls explored
MaxDocPages == 2     \* most pages of a document given to the comprehend cell
MaxTextLen == 3      \* most characters in one page text given to that cell
MaxChunkLen == 2     \* largest value of maxLength (the cell sets 20000)
MaxImages == 6       \* most images in sample_annos
MaxTrainImages == 4  \* images the train metadata describes
SampleSize == 2      \* images sampled per class (the cells take 250)

----------------------------------------------------------------------------
(* Values *)

Statuses == {"SUBMITTED", "IN_PROGRESS", "SUCCEEDED", "FAILED"}

None == "<None>"          \* Python None
Unset == "<unset>"        \* a global no cell has assigned yet
NoError == "<no error>"

JobId == "job1"

TokenNames == <<"t1", "t2", "t3", "t4", "t5">>

LineTexts == {"A", "B"}

PageBlock == [BlockType |-> "PAGE", Text |-> ""]

LineBlock(t) == [BlockType |-> "LINE", Text |-> t]

BlockValues == {PageBlock} \cup {LineBlock(t) : t \in LineTexts}

(* The blocks of a job's result in document order: Textract's block list
   opens with the PAGE block of the first document page. *)
BlockLists ==
    {b \in UNION {[1..n -> BlockValues] : n \in 1..MaxBlocks} :
        b[1] = PageBlock}

(* Where a block list of length t is cut into n responses: response i ends
   after block c[i]; the first response is not empty. *)
Cuts(n, t) ==
    {c \in [1..n -> 0..t] :
        /\ c[1] >= 1
        /\ c[n] = t
        /\ \A i \in 1..(n - 1) : c[i] <= c[i + 1]}

(* The pages the service holds for a job: page i < n carries the token that
   leads to page i+1; the last page carries no NextToken field, or carries
   the field with an empty value. *)
ChainOf(blocks, c, lastHasField) ==
    [i \in 1..Len(c) |->
        [JobStatus |-> "SUCCEEDED",
         Blocks |-> SubSeq(blocks, (IF i = 1 THEN 0 ELSE c[i - 1]) + 1, c[i]),
         hasNextToken |-> IF i < Len(c) THEN TRUE ELSE lastHasField,
         NextToken |-> IF i < Len(c) THEN TokenNames[i] ELSE ""]]

Chains ==
    UNION {UNION {{ChainOf(b, c, h) : c \in Cuts(n, Len(b)), h \in BOOLEAN} :
                     n \in 1..MaxPages} :
              b \in BlockLists}

----------------------------------------------------------------------------
(* The service *)

TokenIndex(tok) == CHOOSE i \in 1..Len(TokenNames) : TokenNames[i] = tok

(* textract.get_document_analysis(JobId=..., [NextToken=...]): the response
   for a job that has not succeeded carries the status and no result; for a
   succeeded job it is the first page, or the page the token leads to. *)
get_document_analysis(st, ch, tok) ==
    IF st # "SUCCEEDED"
    THEN [JobStatus |-> st, Blocks |-> <<>>,
          hasNextToken |-> FALSE, NextToken |-> ""]
    ELSE IF tok = None THEN ch[1] ELSE ch[TokenIndex(tok) + 1]

----------------------------------------------------------------------------
(* Log entries *)

Sleep == [api |-> "sleep", NextToken |-> None, cell |-> "-"]

StartRequest ==
    [api |-> "start_document_analysis", NextToken |-> None, cell |-> "submit"]

GetRequest(cell, tok) ==
    [api |-> "get_document_analysis", NextToken |-> tok, cell |-> cell]

RECURSIVE CountIn(_, _, _)
CountIn(s, api, cell) ==
    IF s = <<>> THEN 0
    ELSE (IF s[1].api = api /\ s[1].cell = cell THEN 1 ELSE 0)
         + CountIn(Tail(s), api, cell)

startRequests == CountIn(log, "start_document_analysis", "submit")

statusPolls == CountIn(log, "get_document_analysis", "await")

pageRequests == CountIn(log, "get_document_analysis", "collect")

----------------------------------------------------------------------------
(* Helpers of the result pagination cell *)

(* Variant: the NextToken field of the response is never read. *)
NextTokenOfIgnored(response) == None

(* nextToken = None; if('NextToken' in response): nextToken = response['NextToken'] *)
NextTokenOf(response) ==
    IF response.hasNextToken THEN response.NextToken ELSE None

(* while(nextToken): Python truth value of None, '' and a non-empty string *)
Truthy(tok) == tok # None /\ tok # ""

(* Variant: the response is inserted at the head of the list. *)
AppendPageAtHead(ps, response) == <<response>> \o ps

(* pages.append(response) *)
AppendPage(ps, response) == Append(ps, response)

----------------------------------------------------------------------------
(* trp.Document(pages) *)

RECURSIVE Flatten(_)
Flatten(ps) ==
    IF ps = <<>> THEN <<>> ELSE ps[1].Blocks \o Flatten(Tail(ps))

(* The block list of all responses is cut at every PAGE block. *)
RECURSIVE DocumentPages(_, _)
DocumentPages(blocks, acc) ==
    IF blocks = <<>> THEN acc
    ELSE IF blocks[1].BlockType = "PAGE"
         THEN DocumentPages(Tail(blocks), Append(acc, <<blocks[1]>>))
         ELSE DocumentPages(Tail(blocks),
                 [acc EXCEPT ![Len(acc)] = Append(@, blocks[1])])

(* page.text: the text of each LINE block followed by a newline, as the
   sequence of its characters *)
RECURSIVE PageText(_)
PageText(blocks) ==
    IF blocks = <<>> THEN <<>>
    ELSE (IF blocks[1].BlockType = "LINE"
          THEN <<blocks[1].Text, "\n">> ELSE <<>>)
         \o PageText(Tail(blocks))

(* Variant: one document page per response. *)
DocumentPerResponse(ps) == [i \in 1..Len(ps) |-> PageText(ps[i].Blocks)]

Document(ps) ==
    LET dp == DocumentPages(Flatten(ps), <<>>)
    IN  [i \in 1..Len(dp) |-> PageText(dp[i])]

----------------------------------------------------------------------------
(* Initial state: nothing has run; the service holds the document's pages.
   pages and doc are not assigned yet; they are shown as empty lists, which
   is also the value the assigning cells start from. *)

(* the variables of the comprehend cell before that cell has run *)
ChunkIdle ==
    /\ maxLength = 0
    /\ pageNo = 0
    /\ pageText = <<>>
    /\ range_i = 0
    /\ comprehendResponse = <<>>

(* the variables of the endpoint cells before any of them has run *)
EndpointIdle ==
    /\ notebook = "-"
    /\ cellNo = 0
    /\ predictor = 0
    /\ endpoints = <<>>
    /\ calls = <<>>
    /\ endpoint_status = Unset

(* {}: the empty dict *)
EmptyDict == [k \in {} |-> 0]

(* dict.keys() *)
keys(d) == DOMAIN d

(* the annotation of an image, of which the model keeps the category *)
Annotation(c) == [category_id |-> c]

(* category_id of the frog annotations *)
FrogCategoryId == 26

(* the variables of the split cell before that cell has run *)
SplitIdle ==
    /\ sample_annos = EmptyDict
    /\ image_ids = <<>>
    /\ first_80 = 0
    /\ next_10 = 0
    /\ train_ids = <<>>
    /\ val_ids = <<>>
    /\ test_ids = <<>>

(* the variables of the dataset cells before any of them has run *)
DatasetIdle ==
    /\ train_metadata = [categories |-> <<>>, annotations |-> <<>>]
    /\ val_metadata = [annotations |-> <<>>]
    /\ category_labels = <<>>
    /\ train_annos = EmptyDict
    /\ val_annos = EmptyDict
    /\ all_annos = EmptyDict
    /\ categoryNo = 0
    /\ frog_images = 0
    /\ next_anno_idx = 0
    /\ frog_anno_ids = <<>>

Init ==
    /\ pc = "submit"
    /\ chain \in Chains
    /\ jobStatus = Unset
    /\ textractJobId = Unset
    /\ status = Unset
    /\ observed = <<>>
    /\ pages = <<>>
    /\ nextToken = Unset
    /\ doc = <<>>
    /\ raised = NoError
    /\ log = <<>>
    /\ job = 1
    /\ ChunkIdle
    /\ EndpointIdle
    /\ SplitIdle
    /\ DatasetIdle

----------------------------------------------------------------------------
(* Cell: textract.start_document_analysis(...) *)

(* Variant: a rejected request is issued a second time. *)
SubmitRetry ==
    /\ pc = "submit"
    /\ log' = Append(log, StartRequest)
    /\ \/ /\ jobStatus' \in {"SUBMITTED", "IN_PROGRESS"}
          /\ textractJobId' = JobId
          /\ pc' = "await"
          /\ raised' = raised
       \/ /\ pc' = IF raised = NoError THEN "submit" ELSE "halted"
          /\ raised' = "start_document_analysis"
          /\ UNCHANGED <<jobStatus, textractJobId>>
    /\ UNCHANGED <<chain, status, observed, pages, nextToken, doc>>
    /\ UNCHANGED <<job, otherCells>>

Submit ==
    /\ pc = "submit"
    /\ log' = Append(log, StartRequest)
    /\ \/ /\ jobStatus' \in {"SUBMITTED", "IN_PROGRESS"}
          /\ textractJobId' = JobId
          /\ pc' = "await"
          /\ raised' = raised
       \/ /\ pc' = "halted"
          /\ raised' = "start_document_analysis"
          /\ UNCHANGED <<jobStatus, textractJobId>>
    /\ UNCHANGED <<chain, status, observed, pages, nextToken, doc>>
    /\ UNCHANGED <<job, otherCells>>

----------------------------------------------------------------------------
(* Cell: job status poll *)

(* Variant: the first status request is made twice. *)
AwaitFirstPollsTwice ==
    /\ pc = "await"
    /\ \E s \in Statuses :
        /\ jobStatus' = s
        /\ status' = get_document_analysis(s, chain, None).JobStatus
        /\ observed' = Append(observed, status')
    /\ log' = log \o <<Sleep, GetRequest("await", None),
                        GetRequest("await", None)>>
    /\ pc' = "await_loop"
    /\ UNCHANGED <<chain, textractJobId, pages, nextToken, doc, raised>>
    /\ UNCHANGED <<job, otherCells>>

(* time.sleep(5); response = get_document_analysis(JobId); status = ... *)
AwaitFirst ==
    /\ pc = "await"
    /\ \E s \in Statuses :
        /\ jobStatus' = s
        /\ status' = get_document_analysis(s, chain, None).JobStatus
        /\ observed' = Append(observed, status')
    /\ log' = log \o <<Sleep, GetRequest("await", None)>>
    /\ pc' = "await_loop"
    /\ UNCHANGED <<chain, textractJobId, pages, nextToken, doc, raised>>
    /\ UNCHANGED <<job, otherCells>>

(* Variant: the loop polls until the job has succeeded. *)
AwaitLoopUntilSucceeded ==
    /\ pc = "await_loop"
    /\ status # "SUCCEEDED"
    /\ statusPolls < MaxPolls
    /\ \E s \in Statuses :
        /\ jobStatus' = s
        /\ status' = get_document_analysis(s, chain, None).JobStatus
        /\ observed' = Append(observed, status')
    /\ log' = log \o <<Sleep, GetRequest("await", None)>>
    /\ UNCHANGED <<pc, chain, textractJobId, pages, nextToken, doc, raised>>
    /\ UNCHANGED <<job, otherCells>>

(* Variant: the loop polls again without sleeping. *)
AwaitLoopBusy ==
    /\ pc = "await_loop"
    /\ status = "IN_PROGRESS"
    /\ statusPolls < MaxPolls
    /\ \E s \in Statuses :
        /\ jobStatus' = s
        /\ status' = get_document_analysis(s, chain, None).JobStatus
        /\ observed' = Append(observed, status')
    /\ log' = log \o <<GetRequest("await", None)>>
    /\ UNCHANGED <<pc, chain, textractJobId, pages, nextToken, doc, raised>>
    /\ UNCHANGED <<job, otherCells>>

(* while(status == "IN_PROGRESS"): sleep; poll; status = ... *)
AwaitLoop ==
    /\ pc = "await_loop"
    /\ status = "IN_PROGRESS"
    /\ statusPolls < MaxPolls
    /\ \E s \in Statuses :
        /\ jobStatus' = s
        /\ status' = get_document_analysis(s, chain, None).JobStatus
        /\ observed' = Append(observed, status')
    /\ log' = log \o <<Sleep, GetRequest("await", None)>>
    /\ UNCHANGED <<pc, chain, textractJobId, pages, nextToken, doc, raised>>
    /\ UNCHANGED <<job, otherCells>>

(* Variant: the cell cancels the job when the wait ends. *)
AwaitExitCancels ==
    /\ pc = "await_loop"
    /\ status # "IN_PROGRESS"
    /\ pc' = "collect"
    /\ log' = Append(log, [api |-> "cancel", NextToken |-> None,
                           cell |-> "await"])
    /\ jobStatus' = "FAILED"
    /\ UNCHANGED <<chain, textractJobId, status, observed, pages,
                   nextToken, doc, raised>>
    /\ UNCHANGED <<job, otherCells>>

(* the loop condition is false: the cell ends and the next cell runs *)
AwaitExit ==
    /\ pc = "await_loop"
    /\ status # "IN_PROGRESS"
    /\ pc' = "collect"
    /\ UNCHANGED <<chain, jobStatus, textractJobId, status, observed, pages,
                   nextToken, doc, raised, log>>
    /\ UNCHANGED <<job, otherCells>>

(* Variant: the exception is caught and the loop polls again. *)
AwaitRaisesRetry ==
    /\ \/ pc = "await"
       \/ pc = "await_loop" /\ status = "IN_PROGRESS" /\ statusPolls < MaxPolls
    /\ log' = log \o <<Sleep, GetRequest("await", None)>>
    /\ raised' = "get_document_analysis"
    /\ UNCHANGED <<pc, chain, jobStatus, textractJobId, status, observed,
                   pages, nextToken, doc>>
    /\ UNCHANGED <<job, otherCells>>

(* a status request raises (the call fails): the run stops in this cell *)
AwaitRaises ==
    /\ \/ pc = "await"
       \/ pc = "await_loop" /\ status = "IN_PROGRESS" /\ statusPolls < MaxPolls
    /\ log' = log \o <<Sleep, GetRequest("await", None)>>
    /\ raised' = "get_document_analysis"
    /\ pc' = "halted"
    /\ UNCHANGED <<chain, jobStatus, textractJobId, status, observed, pages,
                   nextToken, doc>>
    /\ UNCHANGED <<job, otherCells>>

----------------------------------------------------------------------------
(* Cell: result pagination *)

(* Variant: the pagination cell does not start from an empty list. *)
CollectFirstKeepsPages ==
    /\ pc = "collect"
    /\ LET response == get_document_analysis(jobStatus, chain, None)
       IN  /\ pages' = AppendPage(pages, response)
           /\ nextToken' = NextTokenOf(response)
    /\ log' = log \o <<Sleep, GetRequest("collect", None)>>
    /\ pc' = "collect_loop"
    /\ UNCHANGED <<chain, jobStatus, textractJobId, status, observed, doc,
                   raised>>
    /\ UNCHANGED <<job, otherCells>>

(* pages = []; sleep; response = get_document_analysis(JobId);
   pages.append(response); nextToken = ... *)
CollectFirst ==
    /\ pc = "collect"
    /\ LET response == get_document_analysis(jobStatus, chain, None)
       IN  /\ pages' = AppendPage(<<>>, response)
           /\ nextToken' = NextTokenOf(response)
    /\ log' = log \o <<Sleep, GetRequest("collect", None)>>
    /\ pc' = "collect_loop"
    /\ UNCHANGED <<chain, jobStatus, textractJobId, status, observed, doc,
                   raised>>
    /\ UNCHANGED <<job, otherCells>>

(* Variant: the loop goes on whenever the field was present; the request
   with an empty token is rejected. *)
CollectLoopOnField ==
    /\ pc = "collect_loop"
    /\ nextToken # None
    /\ IF nextToken = ""
          THEN /\ raised' = "get_document_analysis"
               /\ pc' = "halted"
               /\ UNCHANGED <<pages, nextToken>>
          ELSE /\ LET response ==
                         get_document_analysis(jobStatus, chain, nextToken)
                  IN  /\ pages' = AppendPage(pages, response)
                      /\ nextToken' = NextTokenOf(response)
               /\ UNCHANGED <<pc, raised>>
    /\ log' = log \o <<Sleep, GetRequest("collect", nextToken)>>
    /\ UNCHANGED <<chain, jobStatus, textractJobId, status, observed, doc>>
    /\ UNCHANGED <<job, otherCells>>

(* Variant: the response replaces the list instead of being appended. *)
CollectLoopOverwrites ==
    /\ pc = "collect_loop"
    /\ Truthy(nextToken)
    /\ LET response == get_document_analysis(jobStatus, chain, nextToken)
       IN  /\ pages' = <<response>>
           /\ nextToken' = NextTokenOf(response)
    /\ log' = log \o <<Sleep, GetRequest("collect", nextToken)>>
    /\ UNCHANGED <<pc, chain, jobStatus, textractJobId, status, observed, doc,
                   raised>>
    /\ UNCHANGED <<job, otherCells>>

(* Variant: the loop requests the next page without the token. *)
CollectLoopNoToken ==
    /\ pc = "collect_loop"
    /\ Truthy(nextToken)
    /\ LET response == get_document_analysis(jobStatus, chain, None)
       IN  /\ pages' = AppendPage(pages, response)
           /\ nextToken' = NextTokenOf(response)
    /\ log' = log \o <<Sleep, GetRequest("collect", None)>>
    /\ UNCHANGED <<pc, chain, jobStatus, textractJobId, status, observed, doc,
                   raised>>
    /\ UNCHANGED <<job, otherCells>>

(* while(nextToken): sleep; response = get_document_analysis(JobId, NextToken);
   pages.append(response); nextToken = ... *)
CollectLoop ==
    /\ pc = "collect_loop"
    /\ Truthy(nextToken)
    /\ LET response == get_document_analysis(jobStatus, chain, nextToken)
       IN  /\ pages' = AppendPage(pages, response)
           /\ nextToken' = NextTokenOf(response)
    /\ log' = log \o <<Sleep, GetRequest("collect", nextToken)>>
    /\ UNCHANGED <<pc, chain, jobStatus, textractJobId, status, observed, doc,
                   raised>>
    /\ UNCHANGED <<job, otherCells>>

(* Variant: the cell stops after two pages whatever the token. *)
CollectExitAtTwoPages ==
    /\ pc = "collect_loop"
    /\ ~Truthy(nextToken) \/ Len(pages) >= 2
    /\ pc' = "aggregate"
    /\ UNCHANGED <<chain, jobStatus, textractJobId, status, observed, pages,
                   nextToken, doc, raised, log>>
    /\ UNCHANGED <<job, otherCells>>

(* the loop condition is false: the cell ends and the next cell runs *)
CollectExit ==
    /\ pc = "collect_loop"
    /\ ~Truthy(nextToken)
    /\ pc' = "aggregate"
    /\ UNCHANGED <<chain, jobStatus, textractJobId, status, observed, pages,
                   nextToken, doc, raised, log>>
    /\ UNCHANGED <<job, otherCells>>

(* a result-page request raises: pages = [] has run when it is the first *)
CollectRaises ==
    /\ \/ pc = "collect" /\ pages' = <<>> /\ log' = log \o <<Sleep, GetRequest("collect", None)>>
       \/ /\ pc = "collect_loop" /\ Truthy(nextToken)
          /\ pages' = pages
          /\ log' = log \o <<Sleep, GetRequest("collect", nextToken)>>
    /\ raised' = "get_document_analysis"
    /\ pc' = "halted"
    /\ UNCHANGED <<chain, jobStatus, textractJobId, status, observed,
                   nextToken, doc>>
    /\ UNCHANGED <<job, otherCells>>

----------------------------------------------------------------------------
(* Cell: doc = trp.Document(pages) *)

(* Variant: building the document empties the list it was given. *)
AggregateConsumesPages ==
    /\ pc = "aggregate"
    /\ doc' = Document(pages)
    /\ pages' = <<>>
    /\ pc' = "done"
    /\ UNCHANGED <<chain, jobStatus, textractJobId, status, observed,
                   nextToken, raised, log>>
    /\ UNCHANGED <<job, otherCells>>

Aggregate ==
    /\ pc = "aggregate"
    /\ doc' = Document(pages)
    /\ pc' = "done"
    /\ UNCHANGED <<chain, jobStatus, textractJobId, status, observed, pages,
                   nextToken, raised, log>>
    /\ UNCHANGED <<job, otherCells>>

----------------------------------------------------------------------------
(* Cell: comprehend medical calls on the text of every page, in chunks *)

(* Characters of a page text and the number of bytes of their UTF-8 form:
   "a" is a one-byte character, "e'" stands for a two-byte one (e acute) *)
Chars == {"a", "e'"}

Utf8Len(c) == IF c = "e'" THEN 2 ELSE 1

Texts == UNION {[1..n -> Chars] : n \in 0..MaxTextLen}

Docs == UNION {[1..n -> Texts] : n \in 0..MaxDocPages}

Min(a, b) == IF a <= b THEN a ELSE b

(* Variant: the slice takes one character more. *)
SliceInclusive(text, from, to) == SubSeq(text, from + 1, Min(to + 1, Len(text)))

(* pageText[from:to] *)
Slice(text, from, to) == SubSeq(text, from + 1, Min(to, Len(text)))

(* Variant: the range stops before a last value that starts a short chunk. *)
InRangeWhole(v, stop, step) == v + step <= stop

(* v is a value of range(0, stop, step), for v a multiple of step *)
InRange(v, stop, step) == v < stop

(* comprehend_medical_client.detect_entities_v2(Text=text): the response,
   identified by the text it is the analysis of *)
detect_entities_v2(text) == [Text |-> text]

(* a document built earlier is given to the cell *)
InitChunk ==
    /\ pc = "chunk"
    /\ doc \in Docs
    /\ chain = <<>>
    /\ jobStatus = Unset
    /\ textractJobId = Unset
    /\ status = Unset
    /\ observed = <<>>
    /\ pages = <<>>
    /\ nextToken = Unset
    /\ raised = NoError
    /\ log = <<>>
    /\ job = 1
    /\ ChunkIdle
    /\ EndpointIdle
    /\ SplitIdle
    /\ DatasetIdle

(* maxLength=20000 (here a value of the scale of the page texts);
   comprehendResponse = [] *)
ChunkBegin ==
    /\ pc = "chunk"
    /\ maxLength' \in 1..MaxChunkLen
    /\ comprehendResponse' = <<>>
    /\ pc' = "chunk_pages"
    /\ UNCHANGED <<pageNo, pageText, range_i>>
    /\ UNCHANGED <<chain, jobStatus, textractJobId, status, observed, pages,
                   nextToken, doc, raised, log, job, endpointVars,
                   splitVars, datasetVars>>

(* Variant: the text of the page is added to the text of the pages before. *)
ChunkNextPageAccumulates ==
    /\ pc = "chunk_pages"
    /\ pageNo < Len(doc)
    /\ pageNo' = pageNo + 1
    /\ pageText' = pageText \o doc[pageNo + 1]
    /\ range_i' = 0
    /\ pc' = "chunk_range"
    /\ UNCHANGED <<maxLength, comprehendResponse>>
    /\ UNCHANGED <<chain, jobStatus, textractJobId, status, observed, pages,
                   nextToken, doc, raised, log, job, endpointVars,
                   splitVars, datasetVars>>

(* for page in doc.pages: pageText = page.text; the range loop starts *)
ChunkNextPage ==
    /\ pc = "chunk_pages"
    /\ pageNo < Len(doc)
    /\ pageNo' = pageNo + 1
    /\ pageText' = doc[pageNo + 1]
    /\ range_i' = 0
    /\ pc' = "chunk_range"
    /\ UNCHANGED <<maxLength, comprehendResponse>>
    /\ UNCHANGED <<chain, jobStatus, textractJobId, status, observed, pages,
                   nextToken, doc, raised, log, job, endpointVars,
                   splitVars, datasetVars>>

(* for i in range(0, len(pageText), maxLength):
       response = detect_entities_v2(Text=pageText[0+i:maxLength+i])
       comprehendResponse.append(response) *)
ChunkCall ==
    /\ pc = "chunk_range"
    /\ InRange(range_i, Len(pageText), maxLength)
    /\ comprehendResponse' =
          Append(comprehendResponse,
                 detect_entities_v2(Slice(pageText, 0 + range_i,
                                          maxLength + range_i)))
    /\ range_i' = range_i + maxLength
    /\ UNCHANGED <<pc, maxLength, pageNo, pageText>>
    /\ UNCHANGED <<chain, jobStatus, textractJobId, status, observed, pages,
                   nextToken, doc, raised, log, job, endpointVars,
                   splitVars, datasetVars>>

(* the range is exhausted: patient_string = ""; on to the next page *)
ChunkPageEnd ==
    /\ pc = "chunk_range"
    /\ ~InRange(range_i, Len(pageText), maxLength)
    /\ pc' = "chunk_pages"
    /\ UNCHANGED chunkVars
    /\ UNCHANGED <<chain, jobStatus, textractJobId, status, observed, pages,
                   nextToken, doc, raised, log, job, endpointVars,
                   splitVars, datasetVars>>

(* doc.pages is exhausted: the cell ends *)
ChunkExit ==
    /\ pc = "chunk_pages"
    /\ pageNo = Len(doc)
    /\ pc' = "chunk_done"
    /\ UNCHANGED chunkVars
    /\ UNCHANGED <<chain, jobStatus, textractJobId, status, observed, pages,
                   nextToken, doc, raised, log, job, endpointVars,
                   splitVars, datasetVars>>

NextChunk ==
    \/ ChunkBegin
    \/ ChunkNextPage
    \/ ChunkCall
    \/ ChunkPageEnd
    \/ ChunkExit

SpecChunk == InitChunk /\ [][NextChunk]_vars

----------------------------------------------------------------------------

Next ==
    \/ Submit
    \/ AwaitFirst
    \/ AwaitLoop
    \/ AwaitExit
    \/ AwaitRaises
    \/ CollectFirst
    \/ CollectLoop
    \/ CollectExit
    \/ CollectRaises
    \/ Aggregate

Spec == Init /\ [][Next]_vars

(* The kernel keeps running the cell it is in and then the next cell: a
   step that can be taken is eventually taken. *)
SpecLive == Init /\ [][Next]_vars /\ WF_vars(Next)

----------------------------------------------------------------------------
(* A second job: the Textract cells are run again in the same kernel *)

(* The first job of a two-job run: pages "A" (with token t1) and "B" *)
FirstJobChains ==
    {ChainOf(<<PageBlock, LineBlock("A"), LineBlock("B")>>, <<2, 3>>, h) :
        h \in BOOLEAN}

InitJobs ==
    /\ Init
    /\ chain \in FirstJobChains

(* The run of the first job has ended; the cells are started again for a
   new document.  The kernel keeps textractJobId, status, pages, nextToken
   and doc; the histories of the model start again for the new job. *)
Rerun ==
    /\ pc \in {"done", "halted"}
    /\ job < 2
    /\ job' = job + 1
    /\ chain' \in Chains
    /\ jobStatus' = Unset
    /\ observed' = <<>>
    /\ log' = <<>>
    /\ raised' = NoError
    /\ pc' = "submit"
    /\ UNCHANGED <<textractJobId, status, pages, nextToken, doc, otherCells>>

NextJobs ==
    \/ Next
    \/ Rerun

SpecJobs == InitJobs /\ [][NextJobs]_vars

----------------------------------------------------------------------------
(* The endpoint cells of the notebooks that deploy an inference endpoint:
   "Lab7 - BertModel/bert-sm-python-SDK.ipynb" (Lab7) and the last notebook
   of "unnamed/part_000" (part_000) *)

(* the endpoint calls of the notebooks' cells, in the order of the cells *)
Lab7Cells ==
    <<"deploy", "predict", "delete_endpoint",
      "deploy", "predict", "predict_batch", "delete_endpoint",
      "deploy", "predict", "delete_endpoint">>

Part000Cells == <<"deploy", "describe_endpoint">>

Notebooks == {"Lab7", "part_000"}

Cells(nb) == IF nb = "Lab7" THEN Lab7Cells ELSE Part000Cells

(* number of sentences a predict cell sends *)
Sentences(cell) == IF cell = "predict_batch" THEN 3 ELSE 1

(* np.argmax(result, axis=1): the predicted class of one sentence *)
Classes == {0, 1}

(* ['EndpointStatus'] of a describe_endpoint response *)
EndpointStatuses == {"Creating", "InService", "Failed"}

(* one endpoint call: the endpoint it addresses (0: none, or an endpoint
   addressed by name), the status that endpoint had, and the classes a
   prediction returned *)
Call(api, ep, res) ==
    [api |-> api, endpoint |-> ep,
     status |-> IF ep \in 1..Len(endpoints) THEN endpoints[ep] ELSE "-",
     result |-> res]

AtCell(cs) ==
    /\ pc = "endpoint"
    /\ cellNo <= Len(Cells(notebook))
    /\ Cells(notebook)[cellNo] \in cs

textractIdleVars ==
    <<chain, jobStatus, textractJobId, status, observed, pages, nextToken,
      doc, log, job>>

(* a notebook is run from its first endpoint cell *)
InitEndpoint ==
    /\ pc = "endpoint"
    /\ notebook \in Notebooks
    /\ cellNo = 1
    /\ predictor = 0
    /\ endpoints = <<>>
    /\ calls = <<>>
    /\ endpoint_status = Unset
    /\ chain = <<>>
    /\ jobStatus = Unset
    /\ textractJobId = Unset
    /\ status = Unset
    /\ observed = <<>>
    /\ pages = <<>>
    /\ nextToken = Unset
    /\ doc = <<>>
    /\ raised = NoError
    /\ log = <<>>
    /\ job = 1
    /\ ChunkIdle
    /\ SplitIdle
    /\ DatasetIdle

(* predictor = estimator.deploy(...): a new endpoint is in service and
   predictor is bound to it *)
Deploy ==
    /\ AtCell({"deploy"})
    /\ endpoints' = Append(endpoints, "InService")
    /\ predictor' = Len(endpoints) + 1
    /\ calls' = Append(calls, Call("deploy", 0, <<>>))
    /\ cellNo' = cellNo + 1
    /\ UNCHANGED <<pc, raised, notebook, endpoint_status>>
    /\ UNCHANGED <<textractIdleVars, chunkVars, splitVars, datasetVars>>

(* deploy raises: the request was rejected, or the endpoint was created
   and failed to come into service; predictor is not assigned *)
DeployRaises ==
    /\ AtCell({"deploy"})
    /\ \E created \in BOOLEAN :
          endpoints' = IF created THEN Append(endpoints, "Failed")
                                  ELSE endpoints
    /\ calls' = Append(calls, Call("deploy", 0, <<>>))
    /\ pc' = "halted"
    /\ raised' = "deploy"
    /\ UNCHANGED <<notebook, cellNo, predictor, endpoint_status>>
    /\ UNCHANGED <<textractIdleVars, chunkVars, splitVars, datasetVars>>

(* result = predictor.predict(...): the endpoint predictor is bound to
   answers with one class per sentence *)
Predict ==
    /\ AtCell({"predict", "predict_batch"})
    /\ predictor \in 1..Len(endpoints)
    /\ endpoints[predictor] = "InService"
    /\ \E res \in [1..Sentences(Cells(notebook)[cellNo]) -> Classes] :
          calls' = Append(calls, Call("predict", predictor, res))
    /\ cellNo' = cellNo + 1
    /\ UNCHANGED <<pc, raised, notebook, predictor, endpoints,
                   endpoint_status>>
    /\ UNCHANGED <<textractIdleVars, chunkVars, splitVars, datasetVars>>

(* predictor.delete_endpoint() *)
DeleteEndpoint ==
    /\ AtCell({"delete_endpoint"})
    /\ predictor \in 1..Len(endpoints)
    /\ endpoints[predictor] # "Deleted"
    /\ endpoints' = [endpoints EXCEPT ![predictor] = "Deleted"]
    /\ calls' = Append(calls, Call("delete_endpoint", predictor, <<>>))
    /\ cellNo' = cellNo + 1
    /\ UNCHANGED <<pc, raised, notebook, predictor, endpoint_status>>
    /\ UNCHANGED <<textractIdleVars, chunkVars, splitVars, datasetVars>>

(* endpoint_status = sm_client.describe_endpoint(EndpointName =
   endpoint_name)['EndpointStatus']; if endpoint_status != 'InService':
   raise Exception(...) *)
DescribeEndpoint ==
    /\ AtCell({"describe_endpoint"})
    /\ \E st \in EndpointStatuses :
          /\ endpoint_status' = st
          /\ IF st # "InService"
                THEN /\ pc' = "halted"
                     /\ raised' = "Exception"
                     /\ cellNo' = cellNo
                ELSE /\ cellNo' = cellNo + 1
                     /\ UNCHANGED <<pc, raised>>
    /\ calls' = Append(calls, Call("describe_endpoint", 0, <<>>))
    /\ UNCHANGED <<notebook, predictor, endpoints>>
    /\ UNCHANGED <<textractIdleVars, chunkVars, splitVars, datasetVars>>

(* the call of a predict, delete_endpoint or describe_endpoint cell raises:
   the service is left as it is and the run stops *)
CallRaises ==
    /\ AtCell({"predict", "predict_batch", "delete_endpoint",
               "describe_endpoint"})
    /\ LET cell == Cells(notebook)[cellNo]
           api == IF cell = "predict_batch" THEN "predict" ELSE cell
       IN  /\ calls' = Append(calls,
                 Call(api, IF cell = "describe_endpoint" THEN 0
                                                          ELSE predictor,
                      <<>>))
           /\ raised' = api
    /\ pc' = "halted"
    /\ UNCHANGED <<notebook, cellNo, predictor, endpoints, endpoint_status>>
    /\ UNCHANGED <<textractIdleVars, chunkVars, splitVars, datasetVars>>

(* the last cell has run: the notebook ends *)
NotebookEnd ==
    /\ pc = "endpoint"
    /\ cellNo = Len(Cells(notebook)) + 1
    /\ pc' = "endpoint_done"
    /\ UNCHANGED <<raised, endpointVars>>
    /\ UNCHANGED <<textractIdleVars, chunkVars, splitVars, datasetVars>>

NextEndpoint ==
    \/ Deploy
    \/ DeployRaises
    \/ Predict
    \/ DeleteEndpoint
    \/ DescribeEndpoint
    \/ CallRaises
    \/ NotebookEnd

SpecEndpoint == InitEndpoint /\ [][NextEndpoint]_vars

----------------------------------------------------------------------------
(* Cell of "unnamed/part_000": train, validation and test splits of the
   image ids *)

(* the image ids sample_annos may have as keys *)
ImageIds == 1..MaxImages

RECURSIVE sorted(_)
(* sorted(list(keys)): the keys in increasing order *)
sorted(S) ==
    IF S = {} THEN <<>>
    ELSE LET least == CHOOSE x \in S : \A y \in S : x <= y
         IN  <<least>> \o sorted(S \ {least})

RECURSIVE Orders(_)
(* every order the elements of S can be put in *)
Orders(S) ==
    IF S = {} THEN {<<>>}
    ELSE UNION {{Append(o, x) : o \in Orders(S \ {x})} : x \in S}

(* np.random.seed(0); np.random.shuffle(list): the list in an order the
   generator decides *)
shuffle(list) ==
    {[k \in 1..Len(list) |-> list[o[k]]] : o \in Orders(1..Len(list))}

(* Variant: the product is rounded to the nearest integer. *)
IntOfTenthsRounded(n, tenths) == (n * tenths + 5) \div 10

(* int(n * 0.8), int(n * 0.9): the product with the integer part kept *)
IntOfTenths(n, tenths) == (n * tenths) \div 10

(* ary[from:to] *)
Section(ary, from, to) == SubSeq(ary, from + 1, Min(to, Len(ary)))

(* np.split(ary, [a, b]): ary[:a], ary[a:b], ary[b:] *)
split(ary, a, b) ==
    <<Section(ary, 0, a), Section(ary, a, b), Section(ary, b, Len(ary))>>

(* sample_annos has been loaded (the categories play no part in the split) *)
InitSplit ==
    /\ pc = "split"
    /\ \E S \in SUBSET ImageIds :
          sample_annos = [k \in S |-> Annotation(FrogCategoryId)]
    /\ image_ids = <<>>
    /\ first_80 = 0
    /\ next_10 = 0
    /\ train_ids = <<>>
    /\ val_ids = <<>>
    /\ test_ids = <<>>
    /\ chain = <<>>
    /\ jobStatus = Unset
    /\ textractJobId = Unset
    /\ status = Unset
    /\ observed = <<>>
    /\ pages = <<>>
    /\ nextToken = Unset
    /\ doc = <<>>
    /\ raised = NoError
    /\ log = <<>>
    /\ job = 1
    /\ ChunkIdle
    /\ EndpointIdle
    /\ DatasetIdle

(* np.random.seed(0)
   image_ids = sorted(list(sample_annos.keys()))
   np.random.shuffle(image_ids)
   first_80 = int(len(image_ids) * 0.8)
   next_10 = int(len(image_ids) * 0.9)
   train_ids, val_ids, test_ids = np.split(image_ids, [first_80, next_10]) *)
SplitCell ==
    /\ pc = "split"
    /\ image_ids' \in shuffle(sorted(keys(sample_annos)))
    /\ first_80' = IntOfTenths(Len(image_ids'), 8)
    /\ next_10' = IntOfTenths(Len(image_ids'), 9)
    /\ LET parts == split(image_ids', first_80', next_10')
       IN  /\ train_ids' = parts[1]
           /\ val_ids' = parts[2]
           /\ test_ids' = parts[3]
    /\ pc' = "split_done"
    /\ UNCHANGED <<raised, sample_annos>>
    /\ UNCHANGED <<textractIdleVars, chunkVars, endpointVars, datasetVars>>

NextSplit ==
    \/ SplitCell

SpecSplit == InitSplit /\ [][NextSplit]_vars

----------------------------------------------------------------------------
(* The dataset notebook (second notebook of "Lab1-boto3 API/Document
   processing.ipynb"): the annotations of the animal images are collected,
   SampleSize images of every class are sampled and the frog annotations
   are added. *)

(* categories of the metadata: two animals and one that is no animal *)
Bird == [id |-> 16, name |-> "bird", supercategory |-> "animal"]

Cat == [id |-> 17, name |-> "cat", supercategory |-> "animal"]

Person == [id |-> 1, name |-> "person", supercategory |-> "person"]

(* train_metadata['categories'], as the metadata lists them *)
CategoryLists ==
    {<<Person>>, <<Person, Bird>>, <<Person, Bird, Cat>>, <<Cat, Person, Bird>>}

(* the categories the annotations of one image can have, in the order of
   the annotations: one object, or a bird and a cat *)
ImageCategories == {<<Bird.id>>, <<Cat.id>>, <<Person.id>>, <<Bird.id, Cat.id>>}

(* the annotations of one image *)
ImageAnnotations(image, cats) ==
    [j \in 1..Len(cats) |-> [image_id |-> image, category_id |-> cats[j]]]

RECURSIVE AnnotationList(_, _)
(* the annotations of the images 1..image, image by image *)
AnnotationList(choice, image) ==
    IF image = 0 THEN <<>>
    ELSE AnnotationList(choice, image - 1)
            \o ImageAnnotations(image, choice[image])

(* train_metadata['annotations'] *)
TrainAnnotationLists ==
    {AnnotationList(choice, MaxTrainImages) :
        choice \in [1..MaxTrainImages -> ImageCategories]}

(* val_metadata['annotations']: none, an image of its own, or an image id
   the train metadata uses as well *)
ValAnnotationLists ==
    {<<>>,
     ImageAnnotations(MaxTrainImages + 1, <<Bird.id>>),
     ImageAnnotations(1, <<Cat.id>>)}

(* d[key] = v *)
Put(d, key, v) == [x \in keys(d) \cup {key} |-> IF x = key THEN v ELSE d[x]]

(* d.update(e) *)
Update(d, e) ==
    [x \in keys(d) \cup keys(e) |-> IF x \in keys(e) THEN e[x] ELSE d[x]]

(* the ids of an ordered dict of categories *)
LabelIds(labels) == {labels[j].id : j \in 1..Len(labels)}

RECURSIVE AnimalLabels(_)
(* {c['id']: c['name'] for c in categories if c['supercategory'] == 'animal'} *)
AnimalLabels(categories) ==
    IF categories = <<>> THEN <<>>
    ELSE (IF categories[1].supercategory = "animal"
             THEN <<[id |-> categories[1].id, name |-> categories[1].name]>>
             ELSE <<>>)
         \o AnimalLabels(Tail(categories))

RECURSIVE AnnosOf(_, _, _)
(* annos = {}; for a in annotations: if a['category_id'] in category_labels:
       annos[a['image_id']] = {'category_id': a['category_id']} *)
AnnosOf(annotations, labels, acc) ==
    IF annotations = <<>> THEN acc
    ELSE AnnosOf(Tail(annotations), labels,
            IF annotations[1].category_id \in LabelIds(labels)
               THEN Put(acc, annotations[1].image_id,
                        Annotation(annotations[1].category_id))
               ELSE acc)

(* subset = [k for k, v in all_annos.items() if v['category_id'] == category_id] *)
SubsetOf(annos, category_id) ==
    {key \in keys(annos) : annos[key].category_id = category_id}

(* Variant: the sample is drawn with replacement, so it may repeat an id. *)
choiceWithReplacement(subset, size) ==
    {sample \in SUBSET subset : Cardinality(sample) \in 1..size}

(* np.random.choice(subset, size=size, replace=False), for a subset of at
   least size elements: the samples it can return, as sets *)
choice(subset, size) ==
    {sample \in SUBSET subset : Cardinality(sample) = size}

(* largest element of a non-empty set of integers *)
Max(S) == CHOOSE x \in S : \A y \in S : y <= x

(* labels[id] = name *)
PutLabel(labels, id, name) ==
    IF id \in LabelIds(labels)
       THEN [j \in 1..Len(labels) |->
               IF labels[j].id = id THEN [id |-> id, name |-> name]
                                    ELSE labels[j]]
       ELSE Append(labels, [id |-> id, name |-> name])

(* the metadata has been loaded *)
InitDataset ==
    /\ pc = "annos"
    /\ \E categories \in CategoryLists, annotations \in TrainAnnotationLists :
          train_metadata = [categories |-> categories,
                            annotations |-> annotations]
    /\ \E annotations \in ValAnnotationLists :
          val_metadata = [annotations |-> annotations]
    /\ category_labels = <<>>
    /\ train_annos = EmptyDict
    /\ val_annos = EmptyDict
    /\ all_annos = EmptyDict
    /\ categoryNo = 0
    /\ frog_images = 0
    /\ next_anno_idx = 0
    /\ frog_anno_ids = <<>>
    /\ chain = <<>>
    /\ jobStatus = Unset
    /\ textractJobId = Unset
    /\ status = Unset
    /\ observed = <<>>
    /\ pages = <<>>
    /\ nextToken = Unset
    /\ doc = <<>>
    /\ raised = NoError
    /\ log = <<>>
    /\ job = 1
    /\ ChunkIdle
    /\ EndpointIdle
    /\ SplitIdle

idleInDataset ==
    <<textractIdleVars, chunkVars, endpointVars, image_ids, first_80,
      next_10, train_ids, val_ids, test_ids>>

(* category_labels = {...}; train_annos = {} ...; val_annos = {} ...;
   all_annos = {}; all_annos.update of every train and then every val
   annotation *)
BuildAnnos ==
    /\ pc = "annos"
    /\ category_labels' = AnimalLabels(train_metadata.categories)
    /\ train_annos' =
          AnnosOf(train_metadata.annotations, category_labels', EmptyDict)
    /\ val_annos' =
          AnnosOf(val_metadata.annotations, category_labels', EmptyDict)
    /\ all_annos' = Update(Update(EmptyDict, train_annos'), val_annos')
    /\ pc' = "sample"
    /\ UNCHANGED <<raised, sample_annos, train_metadata, val_metadata,
                   categoryNo, frog_images, next_anno_idx, frog_anno_ids>>
    /\ UNCHANGED idleInDataset

(* np.random.seed(0); sample_annos = {} *)
SampleBegin ==
    /\ pc = "sample"
    /\ sample_annos' = EmptyDict
    /\ categoryNo' = 0
    /\ pc' = "sample_loop"
    /\ UNCHANGED <<raised, train_metadata, val_metadata, category_labels,
                   train_annos, val_annos, all_annos, frog_images,
                   next_anno_idx, frog_anno_ids>>
    /\ UNCHANGED idleInDataset

(* for category_id in category_labels: subset = ...;
       sample = np.random.choice(subset, size=250, replace=False)
       for k in sample: sample_annos[k] = all_annos[k] *)
SampleCategory ==
    /\ pc = "sample_loop"
    /\ categoryNo < Len(category_labels)
    /\ LET subset == SubsetOf(all_annos, category_labels[categoryNo + 1].id)
       IN  /\ Cardinality(subset) >= SampleSize
           /\ \E sample \in choice(subset, SampleSize) :
                 sample_annos' =
                    Update(sample_annos, [key \in sample |-> all_annos[key]])
    /\ categoryNo' = categoryNo + 1
    /\ UNCHANGED <<pc, raised, train_metadata, val_metadata, category_labels,
                   train_annos, val_annos, all_annos, frog_images,
                   next_anno_idx, frog_anno_ids>>
    /\ UNCHANGED idleInDataset

(* np.random.choice raises ValueError: the subset has fewer than 250 ids *)
SampleRaises ==
    /\ pc = "sample_loop"
    /\ categoryNo < Len(category_labels)
    /\ Cardinality(SubsetOf(all_annos, category_labels[categoryNo + 1].id))
          < SampleSize
    /\ categoryNo' = categoryNo + 1
    /\ raised' = "choice"
    /\ pc' = "halted"
    /\ UNCHANGED <<sample_annos, train_metadata, val_metadata,
                   category_labels, train_annos, val_annos, all_annos,
                   frog_images, next_anno_idx, frog_anno_ids>>
    /\ UNCHANGED idleInDataset

(* category_labels is exhausted: the cell ends; the frog images are
   sampled: frog_images holds 250 of them *)
SampleEnd ==
    /\ pc = "sample_loop"
    /\ categoryNo = Len(category_labels)
    /\ frog_images' = SampleSize
    /\ pc' = "frog_label"
    /\ UNCHANGED <<raised, sample_annos, train_metadata, val_metadata,
                   category_labels, train_annos, val_annos, all_annos,
                   categoryNo, next_anno_idx, frog_anno_ids>>
    /\ UNCHANGED idleInDataset

(* category_labels[26] = 'frog' *)
FrogLabel ==
    /\ pc = "frog_label"
    /\ category_labels' = PutLabel(category_labels, FrogCategoryId, "frog")
    /\ pc' = "frog_ids"
    /\ UNCHANGED <<raised, sample_annos, train_metadata, val_metadata,
                   train_annos, val_annos, all_annos, categoryNo, frog_images,
                   next_anno_idx, frog_anno_ids>>
    /\ UNCHANGED idleInDataset

(* Variant: the frog ids start at the number of annotations. *)
FrogIdsFromLen ==
    /\ pc = "frog_ids"
    /\ keys(sample_annos) # {}
    /\ next_anno_idx' = Cardinality(keys(sample_annos)) + 1
    /\ frog_anno_ids' = [j \in 1..frog_images |-> next_anno_idx' + j - 1]
    /\ pc' = "frog_update"
    /\ UNCHANGED <<raised, sample_annos, train_metadata, val_metadata,
                   category_labels, train_annos, val_annos, all_annos,
                   categoryNo, frog_images>>
    /\ UNCHANGED idleInDataset

(* next_anno_idx = np.array(list(sample_annos.keys())).max() + 1
   frog_anno_ids = range(next_anno_idx, next_anno_idx + len(frog_images)) *)
FrogIds ==
    /\ pc = "frog_ids"
    /\ keys(sample_annos) # {}
    /\ next_anno_idx' = Max(keys(sample_annos)) + 1
    /\ frog_anno_ids' = [j \in 1..frog_images |-> next_anno_idx' + j - 1]
    /\ pc' = "frog_update"
    /\ UNCHANGED <<raised, sample_annos, train_metadata, val_metadata,
                   category_labels, train_annos, val_annos, all_annos,
                   categoryNo, frog_images>>
    /\ UNCHANGED idleInDataset

(* max() of an empty array raises ValueError *)
FrogIdsRaises ==
    /\ pc = "frog_ids"
    /\ keys(sample_annos) = {}
    /\ raised' = "max"
    /\ pc' = "halted"
    /\ UNCHANGED <<sample_annos, train_metadata, val_metadata,
                   category_labels, train_annos, val_annos, all_annos,
                   categoryNo, frog_images, next_anno_idx, frog_anno_ids>>
    /\ UNCHANGED idleInDataset

RECURSIVE PutAll(_, _, _)
(* for id in ids: d[id] = v *)
PutAll(d, ids, v) ==
    IF ids = <<>> THEN d ELSE PutAll(Put(d, ids[1], v), Tail(ids), v)

(* for idx, frog_id in enumerate(frog_anno_ids):
       sample_annos[frog_id] = {'category_id': 26, 'file_name': ...} *)
FrogUpdate ==
    /\ pc = "frog_update"
    /\ sample_annos' =
          PutAll(sample_annos, frog_anno_ids, Annotation(FrogCategoryId))
    /\ pc' = "dataset_done"
    /\ UNCHANGED <<raised, train_metadata, val_metadata, category_labels,
                   train_annos, val_annos, all_annos, categoryNo, frog_images,
                   next_anno_idx, frog_anno_ids>>
    /\ UNCHANGED idleInDataset

NextDataset ==
    \/ BuildAnnos
    \/ SampleBegin
    \/ SampleCategory
    \/ SampleRaises
    \/ SampleEnd
    \/ FrogLabel
    \/ FrogIds
    \/ FrogIdsRaises
    \/ FrogUpdate

SpecDataset == InitDataset /\ [][NextDataset]_vars

----------------------------------------------------------------------------
(* Properties *)

AfterAwait == {"collect", "collect_loop", "aggregate", "done"}

AfterCollect == {"aggregate", "done"}

LastCell == IF log = <<>> THEN "-" ELSE log[Len(log)].cell

RECURSIVE PageBlockCount(_)
PageBlockCount(ps) ==
    IF ps = <<>> THEN 0
    ELSE Cardinality({i \in 1..Len(ps[1].Blocks) :
                         ps[1].Blocks[i].BlockType = "PAGE"})
         + PageBlockCount(Tail(ps))

(* C1: when the result pagination cell has run to its end for a succeeded
   job, pages is exactly the service's chain of responses r1..rn: each
   response once, in the order the service returned them. *)
C1_CollectReturnsChain ==
    (pc \in AfterCollect /\ jobStatus = "SUCCEEDED") => pages = chain

C1_Witness ==
    /\ pc = "aggregate"
    /\ jobStatus = "SUCCEEDED"
    /\ Len(chain) = 3
    /\ chain[2] # chain[3]
    /\ pages = chain

(* C2 as stated: the page count of the document built from the responses
   collected for a succeeded job equals the number of responses collected. *)
C2_PageCountIsResponseCount ==
    (pc = "done" /\ jobStatus = "SUCCEEDED") => Len(doc) = Len(pages)

(* C2 amended: the page count of the document built from the responses
   collected for a succeeded job equals the number of PAGE blocks in those
   responses (the document pages they describe), whatever the number of
   responses. *)
C2_PageCountIsPageBlockCount ==
    (pc = "done" /\ jobStatus = "SUCCEEDED") =>
        /\ Len(doc) = PageBlockCount(pages)
        /\ Len(doc) = PageBlockCount(chain)

C2_Witness ==
    /\ pc = "done"
    /\ jobStatus = "SUCCEEDED"
    /\ Len(pages) = 1
    /\ Len(doc) = 2

(* C3: for a succeeded job the result pagination cell never makes more
   result-page requests than the chain has pages, and when it has run to
   its end it has made exactly one per page: n requests for n pages. *)
C3_OneRequestPerPage ==
    /\ jobStatus = "SUCCEEDED" => pageRequests <= Len(chain)
    /\ (pc \in AfterCollect /\ jobStatus = "SUCCEEDED")
          => pageRequests = Len(chain)

C3_Witness ==
    /\ pc = "done"
    /\ jobStatus = "SUCCEEDED"
    /\ Len(chain) = 2
    /\ chain[1].Blocks = <<PageBlock, LineBlock("A")>>
    /\ chain[2].Blocks = <<LineBlock("B")>>
    /\ ~chain[2].hasNextToken
    /\ pages = chain
    /\ pageRequests = 2

(* C4 as stated: whenever the status poll cell has finished, the last
   observed status is SUCCEEDED or FAILED, or the wait bound has passed. *)
C4_FinishesOnTerminalOrTimeout ==
    pc \in AfterAwait =>
        \/ status \in {"SUCCEEDED", "FAILED"}
        \/ statusPolls >= MaxWaitPolls

(* C5 as stated: when the service reports FAILED the status poll cell ends
   in an error, so control never reaches result collection. *)
C5_FailedNeverProceeds ==
    pc \in AfterAwait => status # "FAILED"

(* C6 as stated: with a wait bound of k poll intervals no more than k
   status polls are ever issued. *)
C6_AtMostKPolls ==
    statusPolls <= MaxWaitPolls

ChainStep(a, b) ==
    \/ a = "SUBMITTED" /\ b \in {"SUBMITTED", "IN_PROGRESS"}
    \/ a = "IN_PROGRESS" /\ b \in {"IN_PROGRESS", "SUCCEEDED", "FAILED"}

(* C7 as stated: the status poll cell never completes normally after two
   successive status observations that are not a step of the chain
   SUBMITTED -> IN_PROGRESS* -> {SUCCEEDED|FAILED}. *)
C7_OutOfOrderNeverCompletes ==
    pc \in AfterAwait =>
        \A i \in 1..(Len(observed) - 1) : ChainStep(observed[i], observed[i+1])

(* C8 as stated: result collection for a job that has not succeeded fails
   and leaves the page collection empty. *)
C8_NoPagesUnlessSucceeded ==
    jobStatus # "SUCCEEDED" => (pages = <<>> /\ pc \notin AfterCollect)

(* C9 as stated: when a result-page request of a succeeded job fails, the
   page collection is empty or the complete chain. *)
C9_AllOrNothing ==
    (pc = "halted" /\ LastCell = "collect" /\ jobStatus = "SUCCEEDED")
        => (pages = <<>> \/ pages = chain)

(* C10: at most one start request is ever issued, and when the service
   rejects it the run stops with the exception of start_document_analysis,
   no job identifier is set and no status poll or result-page request is
   made. *)
C10_RejectedSubmitStops ==
    /\ startRequests <= 1
    /\ raised = "start_document_analysis" =>
          /\ pc = "halted"
          /\ textractJobId = Unset
          /\ startRequests = 1
          /\ statusPolls = 0
          /\ pageRequests = 0

C10_Witness ==
    /\ raised = "start_document_analysis"
    /\ pc = "halted"
    /\ startRequests = 1

(* C11: once a status poll or a result-page request has raised, the run is
   stopped with that exception as its outcome: no further sleep or request
   is made and the exception is not cleared. *)
C11_NoRetryAfterError ==
    /\ [](raised # NoError => pc = "halted")
    /\ [][raised # NoError => (log' = log /\ raised' = raised)]_vars

C11_Witness ==
    /\ pc = "halted"
    /\ raised = "get_document_analysis"
    /\ LastCell = "collect"
    /\ Len(pages) >= 1
    /\ statusPolls >= 1

CollectorApis ==
    {"sleep", "start_document_analysis", "get_document_analysis"}

(* C12: the only requests ever sent are start_document_analysis and
   get_document_analysis (no cancel request on any path), and the step that
   ends the local wait leaves the status the service holds for the job
   unchanged. *)
C12_NoCancelNoRemoteChange ==
    /\ [](\A k \in 1..Len(log) : log[k].api \in CollectorApis)
    /\ [][(pc \in {"await", "await_loop"} /\ pc' \notin {"await", "await_loop"})
             => jobStatus' = jobStatus]_vars

C12_Witness ==
    /\ pc = "collect"
    /\ jobStatus = "SUBMITTED"
    /\ observed = <<"IN_PROGRESS", "SUBMITTED">>
    /\ pageRequests = 0

(* C13: every request of the status poll cell comes directly after a sleep
   (no busy polling), and the cell has made exactly one status request per
   status it observed, plus the one that raised if the run stopped there. *)
C13_SleepThenOneRequest ==
    /\ \A k \in 1..Len(log) :
          log[k].api = "get_document_analysis" =>
              (k > 1 /\ log[k - 1] = Sleep)
    /\ statusPolls =
          Len(observed)
          + (IF pc = "halted" /\ LastCell = "await" THEN 1 ELSE 0)

C13_Witness ==
    /\ pc = "await_loop"
    /\ observed = <<"IN_PROGRESS", "IN_PROGRESS", "SUCCEEDED">>
    /\ statusPolls = 3

PageStarts(blocks) ==
    {k \in 1..Len(blocks) : blocks[k].BlockType = "PAGE"}

NthPageStart(blocks, n) ==
    CHOOSE k \in PageStarts(blocks) :
        Cardinality({j \in PageStarts(blocks) : j <= k}) = n

NthPageEnd(blocks, n) ==
    IF n = Cardinality(PageStarts(blocks)) THEN Len(blocks)
    ELSE NthPageStart(blocks, n + 1) - 1

(* C14 as stated: the document has one entry per page of the sequence it is
   built from (one per collected response), each holding the text of that
   response only. *)
C14_OneEntryPerResponse ==
    (pc = "done" /\ jobStatus = "SUCCEEDED") =>
        doc = [k \in 1..Len(pages) |-> PageText(pages[k].Blocks)]

(* C14 amended: the document built for a succeeded job has one entry per
   document page (PAGE block) of the collected responses, in order: entry n
   is the text of the LINE blocks from the n-th PAGE block up to the next
   one, also when they arrive in different responses; building it again
   from the same responses gives the same document, and building it
   changes neither the collected responses nor any other variable. *)
C14_OneEntryPerDocumentPage ==
    /\ []((pc = "done" /\ jobStatus = "SUCCEEDED") =>
            LET flat == Flatten(pages)
            IN  /\ pages = chain
                /\ Len(doc) = Cardinality(PageStarts(flat))
                /\ \A n \in 1..Len(doc) :
                      doc[n] = PageText(SubSeq(flat, NthPageStart(flat, n),
                                               NthPageEnd(flat, n)))
                /\ doc = Document(pages))
    /\ [][pc = "aggregate" =>
            UNCHANGED <<chain, jobStatus, textractJobId, status, observed,
                        pages, nextToken, raised, log>>]_vars

C14_Witness ==
    /\ pc = "done"
    /\ jobStatus = "SUCCEEDED"
    /\ Len(pages) = 2
    /\ doc = << <<"A", "\n", "B", "\n">> >>

CeilDiv(a, b) == (a + b - 1) \div b

RECURSIVE ConcatTexts(_)
ConcatTexts(rs) ==
    IF rs = <<>> THEN <<>> ELSE rs[1].Text \o ConcatTexts(Tail(rs))

RECURSIVE ByteLen(_)
ByteLen(text) ==
    IF text = <<>> THEN 0 ELSE Utf8Len(text[1]) + ByteLen(Tail(text))

(* the range loop of the first page has run to its end *)
FirstPageChunked ==
    /\ pc = "chunk_range"
    /\ pageNo = 1
    /\ ~InRange(range_i, Len(pageText), maxLength)

(* C15: a text of L characters chunked with maxLength M >= 1 gives exactly
   ceil(L/M) calls: never more while the loop runs, exactly that many when
   it ends (none for the empty text, no empty last chunk). *)
C15_ChunkCount ==
    /\ (pc = "chunk_range" /\ pageNo = 1) =>
          Len(comprehendResponse) <= CeilDiv(Len(pageText), maxLength)
    /\ FirstPageChunked =>
          /\ Len(comprehendResponse) = CeilDiv(Len(pageText), maxLength)
          /\ \A k \in 1..Len(comprehendResponse) :
                comprehendResponse[k].Text # <<>>

C15_Witness ==
    /\ FirstPageChunked
    /\ Len(pageText) = 3
    /\ maxLength = 2
    /\ Len(comprehendResponse) = 2

(* C16 as stated: every chunk passed to detect_entities_v2 is at most
   maxLength bytes long. *)
C16_ChunkBytesWithinLimit ==
    \A k \in 1..Len(comprehendResponse) :
        ByteLen(comprehendResponse[k].Text) <= maxLength

(* C17: the chunks of a text are consecutive, non-overlapping slices:
   while the loop runs their concatenation is the part of the text before
   the next offset, and when it ends it is the whole text. *)
C17_ChunksConcatenateToText ==
    /\ (pc = "chunk_range" /\ pageNo = 1) =>
          ConcatTexts(comprehendResponse)
             = SubSeq(pageText, 1, Min(range_i, Len(pageText)))
    /\ FirstPageChunked => ConcatTexts(comprehendResponse) = pageText

C17_Witness ==
    /\ FirstPageChunked
    /\ pageText = <<"a", "e'", "a">>
    /\ maxLength = 2
    /\ comprehendResponse = <<[Text |-> <<"a", "e'">>], [Text |-> <<"a">>]>>

(* C18: in the second of two jobs run one after the other, once the status
   poll cell has finished the status is the one the service last returned
   for the second job, and once the pagination cell has finished for a
   succeeded job the page collection is exactly the second job's chain and
   the token is the one of its last response: nothing of the first job is
   left in them. *)
C18_SecondJobUnaffected ==
    job = 2 =>
        /\ pc \in AfterAwait =>
              (status = observed[Len(observed)] /\ status = jobStatus)
        /\ pc \in {"collect_loop"} \cup AfterCollect =>
              /\ Len(pages) = pageRequests
              /\ nextToken = NextTokenOf(pages[Len(pages)])
        /\ (pc \in AfterCollect /\ jobStatus = "SUCCEEDED") => pages = chain

C18_Witness ==
    /\ job = 2
    /\ pc = "done"
    /\ jobStatus = "SUCCEEDED"
    /\ Len(chain) = 1
    /\ pages = chain
    /\ pages[1] \notin {c[k] : k \in 1..2, c \in FirstJobChains}

----------------------------------------------------------------------------
(* C19: in a linear run of a notebook that deploys an endpoint, an endpoint
   is invoked only while it is in service (deployed and not deleted), and
   when the notebook ends every endpoint that was deployed has been
   deleted.  The last notebook of part_000 deploys an endpoint and has no
   cell that deletes it, so this does not hold of it. *)
C19_DeployInvokeDelete ==
    /\ \A k \in 1..Len(calls) :
          calls[k].api = "predict" => calls[k].status = "InService"
    /\ pc = "endpoint_done" =>
          \A e \in 1..Len(endpoints) : endpoints[e] = "Deleted"

----------------------------------------------------------------------------
(* the set of the elements of a list *)
Elements(list) == {list[k] : k \in 1..Len(list)}

(* m = floor(n * tenths / 10), said without a division *)
IsFloorOfTenths(m, n, tenths) == 10 * m <= n * tenths /\ n * tenths < 10 * (m + 1)

(* C20: the train, validation and test splits of the n image ids are a
   partition: pairwise disjoint, their union is the set of image ids, and
   their sizes are floor(0.8n), floor(0.9n) - floor(0.8n) and
   n - floor(0.9n); they are the first, next and last ids of the shuffled
   list. *)
C20_SplitIsPartition ==
    pc = "split_done" =>
        LET n == Cardinality(keys(sample_annos))
        IN  /\ Elements(train_ids) \cap Elements(val_ids) = {}
            /\ Elements(train_ids) \cap Elements(test_ids) = {}
            /\ Elements(val_ids) \cap Elements(test_ids) = {}
            /\ Elements(train_ids) \cup Elements(val_ids)
                  \cup Elements(test_ids) = keys(sample_annos)
            /\ IsFloorOfTenths(Len(train_ids), n, 8)
            /\ IsFloorOfTenths(Len(train_ids) + Len(val_ids), n, 9)
            /\ Len(train_ids) + Len(val_ids) + Len(test_ids) = n
            /\ train_ids \o val_ids \o test_ids = image_ids

(* six ids, shuffled out of their sorted order, split 4 / 1 / 1 *)
C20_Witness ==
    /\ pc = "split_done"
    /\ Cardinality(keys(sample_annos)) = 6
    /\ image_ids # sorted(keys(sample_annos))
    /\ Len(train_ids) = 4
    /\ Len(val_ids) = 1
    /\ Len(test_ids) = 1

----------------------------------------------------------------------------
IsPageRequest(e) == e.api = "get_document_analysis" /\ e.cell = "collect"

(* the result-page requests made so far, in order *)
PageRequestLog == SelectSeq(log, IsPageRequest)

(* C22: result pages are requested in chain order: the first result-page
   request carries no token, request n+1 carries the token of response n,
   which has been received and appended before request n+1 is sent. *)
C22_RequestsInChainOrder ==
    /\ [](LET reqs == PageRequestLog
          IN  /\ reqs # <<>> => reqs[1].NextToken = None
              /\ \A n \in 1..(Len(reqs) - 1) :
                    /\ n <= Len(pages)
                    /\ pages[n].hasNextToken
                    /\ reqs[n + 1].NextToken = pages[n].NextToken
                    /\ jobStatus = "SUCCEEDED" => pages[n] = chain[n])
    /\ [][Len(PageRequestLog') > Len(PageRequestLog)
            => Len(pages) = Len(PageRequestLog)]_vars

C22_Witness ==
    /\ pc = "done"
    /\ jobStatus = "SUCCEEDED"
    /\ Len(PageRequestLog) = 3
    /\ PageRequestLog[2].NextToken = "t1"
    /\ PageRequestLog[3].NextToken = "t2"
    /\ pages = chain

----------------------------------------------------------------------------
(* the responses the service returns for the job when the tokens are
   followed from the first result-page request *)
ResponseChain ==
    IF jobStatus = "SUCCEEDED" THEN chain
    ELSE <<get_document_analysis(jobStatus, chain, None)>>

(* C23: for a finite token chain the result pagination cell terminates (it
   ends or an exception stops it), and it ends only when the chain is
   exhausted: there is no maximum page count. *)
C23_CollectTerminates ==
    /\ (pc = "collect") ~> (pc \in {"aggregate", "halted"})
    /\ [](pc = "collect_loop" /\ Len(pages) = Len(ResponseChain)
            => ~Truthy(nextToken))
    /\ [][pc = "collect_loop" /\ pc' = "aggregate"
            => Len(pages) = Len(ResponseChain)]_vars

C23_Witness ==
    /\ pc = "aggregate"
    /\ jobStatus = "SUCCEEDED"
    /\ Len(pages) = 3
    /\ pageRequests = 3
    /\ ~chain[3].hasNextToken

----------------------------------------------------------------------------
(* C24: the status poll loop exits on the first observed status that is
   not IN_PROGRESS, whatever that status is: every status observed before
   the last one is IN_PROGRESS, after the loop the last one is not, and the
   global status holds the status of the most recent response. *)
C24_ExitOnFirstNotInProgress ==
    /\ \A k \in 1..(Len(observed) - 1) : observed[k] = "IN_PROGRESS"
    /\ observed # <<>> => status = observed[Len(observed)]
    /\ pc \in AfterAwait =>
          /\ observed # <<>>
          /\ observed[Len(observed)] # "IN_PROGRESS"

C24_Witness ==
    /\ pc = "collect"
    /\ observed = <<"IN_PROGRESS", "IN_PROGRESS", "FAILED">>
    /\ status = "FAILED"

(* number of IN_PROGRESS responses the status poll cell has observed *)
InProgressCount ==
    Cardinality({k \in 1..Len(observed) : observed[k] = "IN_PROGRESS"})

(* C25: once a status other than IN_PROGRESS has been reported the status
   poll loop terminates; it has then made one status request more than it
   observed IN_PROGRESS responses; while the status is IN_PROGRESS the loop
   does not end (only an exception stops it). *)
C25_PollLoopTermination ==
    /\ (pc = "await_loop" /\ status # "IN_PROGRESS") ~> (pc = "collect")
    /\ [](pc \in AfterAwait => statusPolls = 1 + InProgressCount)
    /\ [][pc = "await_loop" /\ status = "IN_PROGRESS"
            => pc' \in {"await_loop", "halted"}]_vars

C25_Witness ==
    /\ pc = "collect"
    /\ InProgressCount = 2
    /\ statusPolls = 3
    /\ status = "SUCCEEDED"

----------------------------------------------------------------------------
IsPrefix(a, b) == Len(a) <= Len(b) /\ \A k \in 1..Len(a) : a[k] = b[k]

(* result-page requests that were answered: all but one that raised *)
AnsweredPageRequests ==
    pageRequests - (IF pc = "halted" /\ LastCell = "collect" THEN 1 ELSE 0)

(* C26: pages is append-only during collection: it is always a prefix of
   the job's response chain, it has one entry per answered result-page
   request, a step never changes or removes an entry, and nothing is in it
   while the status poll cell runs. *)
C26_PagesAppendOnly ==
    /\ [](/\ IsPrefix(pages, ResponseChain)
          /\ Len(pages) = AnsweredPageRequests
          /\ pc \in {"await", "await_loop"} => pages = <<>>)
    /\ [][IsPrefix(pages, pages')]_vars

C26_Witness ==
    /\ pc = "collect_loop"
    /\ jobStatus = "SUCCEEDED"
    /\ Len(observed) = 2
    /\ Len(chain) = 3
    /\ Len(pages) = 2
    /\ pages[2] = chain[2]

----------------------------------------------------------------------------
(* the response appended last carries the NextToken field with an empty
   value *)
LastPageHasEmptyToken ==
    /\ pages # <<>>
    /\ pages[Len(pages)].hasNextToken
    /\ pages[Len(pages)].NextToken = ""

(* C27: a response that carries the NextToken field with an empty value
   ends the collection like a response without the field: the next step of
   the cell is its end, with no further request and pages left as it is. *)
C27_EmptyTokenStops ==
    /\ [][(pc = "collect_loop" /\ LastPageHasEmptyToken)
            => (pc' = "aggregate" /\ pages' = pages /\ log' = log)]_vars
    /\ [](LastPageHasEmptyToken =>
            /\ pageRequests = Len(pages)
            /\ raised = NoError)

C27_Witness ==
    /\ pc = "aggregate"
    /\ LastPageHasEmptyToken
    /\ Len(pages) = 2
    /\ pages[1].NextToken = "t1"
    /\ pageRequests = 2

----------------------------------------------------------------------------
(* the calls for one page text: one per chunk of M characters, by offset *)
ChunksOf(text, M) ==
    [k \in 1..CeilDiv(Len(text), M) |->
        detect_entities_v2(SubSeq(text, (k - 1) * M + 1, Min(k * M, Len(text))))]

RECURSIVE ExpectedCalls(_, _)
(* the calls for a list of page texts: page by page *)
ExpectedCalls(d, M) ==
    IF d = <<>> THEN <<>> ELSE ChunksOf(d[1], M) \o ExpectedCalls(Tail(d), M)

(* C28: the text is chunked page by page: after every page, and at the
   end, the response list holds one response per chunk, ordered by page and
   then by offset, sum over the pages of ceil(len/M) in all; every chunk is
   a non-empty slice of one page's text and an empty page gives no call. *)
C28_ChunkedPerPage ==
    /\ pc = "chunk_pages" =>
          comprehendResponse = ExpectedCalls(SubSeq(doc, 1, pageNo), maxLength)
    /\ pc = "chunk_done" =>
          comprehendResponse = ExpectedCalls(doc, maxLength)
    /\ pc = "chunk_range" =>
          /\ IsPrefix(comprehendResponse,
                      ExpectedCalls(SubSeq(doc, 1, pageNo), maxLength))
          /\ IsPrefix(ExpectedCalls(SubSeq(doc, 1, pageNo - 1), maxLength),
                      comprehendResponse)

C28_Witness ==
    /\ pc = "chunk_done"
    /\ maxLength = 2
    /\ Len(doc) = 2
    /\ doc[1] = <<>>
    /\ doc[2] = <<"e'", "a", "a">>
    /\ comprehendResponse = <<[Text |-> <<"e'", "a">>], [Text |-> <<"a">>]>>

----------------------------------------------------------------------------
(* the sampled image ids of a category *)
SampledOf(c) ==
    {key \in keys(sample_annos) : sample_annos[key].category_id = c}

(* every category of category_labels has at least SampleSize images *)
EveryClassHasEnough ==
    \A c \in LabelIds(category_labels) :
        Cardinality(SubsetOf(all_annos, c)) >= SampleSize

(* C21: when every category has at least SampleSize images the sampling
   does not fail, and after the sampling sample_annos holds for every
   category of category_labels exactly SampleSize distinct image ids of
   that category: SampleSize x (number of categories) entries in all. *)
C21_SampleSizePerClass ==
    /\ pc = "frog_label" =>
          /\ EveryClassHasEnough
          /\ \A c \in LabelIds(category_labels) :
                /\ Cardinality(SampledOf(c)) = SampleSize
                /\ SampledOf(c) \subseteq SubsetOf(all_annos, c)
          /\ Cardinality(keys(sample_annos))
                = SampleSize * Len(category_labels)
    /\ pc = "sample_loop" =>
          \A j \in 1..categoryNo :
              Cardinality(SampledOf(category_labels[j].id)) = SampleSize
    /\ raised = "choice" => ~EveryClassHasEnough

C21_Witness ==
    /\ pc = "frog_label"
    /\ Len(category_labels) = 2
    /\ Len(train_metadata.annotations) = MaxTrainImages + 1
    /\ Cardinality(keys(sample_annos)) = 4
    /\ (MaxTrainImages + 1) \in keys(sample_annos)

----------------------------------------------------------------------------
(* labels[id] *)
LabelOf(labels, id) ==
    (CHOOSE l \in {labels[j] : j \in 1..Len(labels)} : l.id = id).name

(* C29: adding the frog annotations overwrites nothing: the frog ids are
   the consecutive integers from (largest existing id) + 1, distinct from
   each other and from the existing keys; the update keeps every existing
   entry, adds one entry per frog image and gives each new entry the
   category 26, which category_labels maps to 'frog'. *)
C29_FrogIdsAreNew ==
    /\ [](pc = "frog_update" =>
            /\ \A j \in 1..Len(frog_anno_ids) :
                  /\ frog_anno_ids[j] = Max(keys(sample_annos)) + j
                  /\ frog_anno_ids[j] \notin keys(sample_annos)
            /\ \A j, l \in 1..Len(frog_anno_ids) :
                  j # l => frog_anno_ids[j] # frog_anno_ids[l]
            /\ Len(frog_anno_ids) = frog_images)
    /\ [][pc = "frog_update" =>
            LET old == keys(sample_annos)
                new == keys(sample_annos')
            IN  /\ old \subseteq new
                /\ \A key \in old : sample_annos'[key] = sample_annos[key]
                /\ Cardinality(new) = Cardinality(old) + frog_images
                /\ new \ old = {frog_anno_ids[j] : j \in 1..frog_images}
                /\ \A key \in new \ old :
                      /\ sample_annos'[key].category_id = FrogCategoryId
                      /\ LabelOf(category_labels, FrogCategoryId) = "frog"]_vars

C29_Witness ==
    /\ pc = "dataset_done"
    /\ frog_images = 2
    /\ next_anno_idx = MaxTrainImages + 2
    /\ Cardinality(keys(sample_annos)) = 6
    /\ SampledOf(FrogCategoryId) = {next_anno_idx, next_anno_idx + 1}

====
